---- MODULE Spec2Model ----
(***************************************************************************)
(* Model of examples/stable-diffusion-inpaint/main.rs: the inpainting      *)
(* driver (main, run, prepare_mask_and_masked_image).                      *)
(*                                                                         *)
(* Real numbers are exact rationals <<numerator, denominator>>.  Image     *)
(* tensors are records [shape, data] with data indexed by 1-based index    *)
(* tuples.  The tensors that flow through the networks are opaque: they    *)
(* are formal linear combinations of atoms, an atom being the application  *)
(* of a network or of the random generator to its arguments.               *)
(***************************************************************************)
EXTENDS Integers, Sequences, FiniteSets, TLC

\* ---------------------------------------------------------------- bounds
MaxChannels == 2
MaxHeight == 2
MaxWidth == 2
MaxElems == 4
MaxSteps == 3
MaxSamples == 2
MaxLen == 3

\* ------------------------------------------------------- program constants
HEIGHT == 512
WIDTH == 512
\* GUIDANCE_SCALE: f64 = 7.5
GUIDANCE_SCALE == <<15, 2>>
\* the train_timesteps argument of DDIMScheduler::new
TRAIN_TIMESTEPS == 1000
\* the latent scaling factor 0.18215
VAE_SCALE == <<3643, 20000>>
\* the mask threshold 122.5
MASK_THRESHOLD == <<245, 2>>

\* ------------------------------------------------------------- rationals
Abs(x) == IF x < 0 THEN -x ELSE x

RECURSIVE GCD(_, _)
GCD(a, b) == IF b = 0 THEN a ELSE GCD(b, a % b)

Rat(n, d) ==
    LET g == GCD(Abs(n), Abs(d))
        s == IF d < 0 THEN -1 ELSE 1
    IN  <<(s * n) \div g, (s * d) \div g>>

RInt(n) == <<n, 1>>
RAdd(x, y) == Rat(x[1] * y[2] + y[1] * x[2], x[2] * y[2])
RSub(x, y) == Rat(x[1] * y[2] - y[1] * x[2], x[2] * y[2])
RMul(x, y) == Rat(x[1] * y[1], x[2] * y[2])
RDiv(x, y) == Rat(x[1] * y[2], x[2] * y[1])
RGe(x, y) == x[1] * y[2] >= y[1] * x[2]

\* ---------------------------------------------------------- pixel tensors
MaxOf(shape) == CHOOSE m \in {shape[k] : k \in DOMAIN shape} :
                    \A k \in DOMAIN shape : shape[k] <= m

Indices(shape) ==
    {i \in [1..Len(shape) -> 1..MaxOf(shape)] : \A k \in 1..Len(shape) : i[k] <= shape[k]}

RECURSIVE SumAxis(_, _, _, _)
SumAxis(t, i, ax, n) ==
    IF n = 0 THEN RInt(0)
    ELSE RAdd(t.data[[i EXCEPT ![ax] = n]], SumAxis(t, i, ax, n - 1))

\* Tensor::mean_dim(dim, keepdim = true, Kind::Float); dim is 0-based
mean_dim(t, dim) ==
    LET ax == dim + 1
        n == t.shape[ax]
        kept == [t.shape EXCEPT ![ax] = 1]
    IN  [shape |-> kept,
         data |-> [i \in Indices(kept) |-> RDiv(SumAxis(t, i, ax, n), RInt(n))]]

\* Tensor::ge(scalar).totype(Kind::Float): 1.0 where true, 0.0 where false
ge(t, threshold) ==
    [shape |-> t.shape,
     data |-> [i \in Indices(t.shape) |->
                 IF RGe(t.data[i], threshold) THEN RInt(1) ELSE RInt(0)]]

\* broadcasting of two shapes of the same rank (sizes equal, or one of them 1)
BroadcastShape(a, b) == [k \in 1..Len(a) |-> IF a[k] >= b[k] THEN a[k] ELSE b[k]]

Clip(i, shape) == [k \in DOMAIN i |-> IF shape[k] = 1 THEN 1 ELSE i[k]]

\* Tensor * Tensor, elementwise with broadcasting
mul(x, y) ==
    LET s == BroadcastShape(x.shape, y.shape)
    IN  [shape |-> s,
         data |-> [i \in Indices(s) |->
                     RMul(x.data[Clip(i, x.shape)], y.data[Clip(i, y.shape)])]]

\* Tensor::unsqueeze(0)
unsqueeze(t) ==
    LET s == <<1>> \o t.shape
    IN  [shape |-> s,
         data |-> [i \in Indices(s) |-> t.data[[k \in 1..Len(t.shape) |-> i[k + 1]]]]]

\* image / 255. * 2. - 1., elementwise
Normalize(t) ==
    [shape |-> t.shape,
     data |-> [i \in Indices(t.shape) |->
                 RSub(RMul(RDiv(t.data[i], RInt(255)), RInt(2)), RInt(1))]]

\* 1 - &mask, elementwise
OneMinus(t) ==
    [shape |-> t.shape, data |-> [i \in Indices(t.shape) |-> RSub(RInt(1), t.data[i])]]

\* prepare_mask_and_masked_image, for two files that decode to the tensors
\* image_file and mask_file of shape [C, H, W]
prepare_mask_and_masked_image(image_file, mask_file) ==
    LET image1 == Normalize(image_file)
        mask1 == mean_dim(mask_file, 1)
        mask2 == ge(mask1, MASK_THRESHOLD)
        masked == mul(image1, OneMinus(mask2))
    IN  <<unsqueeze(mask2), unsqueeze(masked)>>

\* -------------------------------------------------------- opaque tensors
\* A tensor is a formal linear combination of atoms: a function from atoms
\* to non-zero rational coefficients.  A batched tensor is the sequence of
\* its entries along the batch axis (axis 0).
Atom(a) == (a :> RInt(1))

Coef(x, a) == IF a \in DOMAIN x THEN x[a] ELSE RInt(0)

TAdd(x, y) ==
    LET c(a) == RAdd(Coef(x, a), Coef(y, a))
    IN  [a \in {b \in (DOMAIN x) \cup (DOMAIN y) : c(b) # RInt(0)} |-> c(a)]

TSub(x, y) ==
    LET c(a) == RSub(Coef(x, a), Coef(y, a))
    IN  [a \in {b \in (DOMAIN x) \cup (DOMAIN y) : c(b) # RInt(0)} |-> c(a)]

TScale(x, r) ==
    LET c(a) == RMul(Coef(x, a), r)
    IN  [a \in {b \in DOMAIN x : c(b) # RInt(0)} |-> c(a)]

BAdd(x, y) == [b \in 1..Len(x) |-> TAdd(x[b], y[b])]
BSub(x, y) == [b \in 1..Len(x) |-> TSub(x[b], y[b])]
BScale(x, r) == [b \in 1..Len(x) |-> TScale(x[b], r)]

\* Tensor::cat(&[..], 0): concatenation along the batch axis
RECURSIVE cat0(_)
cat0(parts) == IF parts = <<>> THEN <<>> ELSE Head(parts) \o cat0(Tail(parts))

\* Tensor::cat(&[..], 1): concatenation along the channel axis, per batch entry
cat1(parts) ==
    [b \in 1..Len(parts[1]) |->
        Atom([op |-> "cat", channels |-> [k \in 1..Len(parts) |-> parts[k][b]]])]

\* Tensor::chunk(2, 0): the two halves along the batch axis
chunk2(x) ==
    LET h == (Len(x) + 1) \div 2
    IN  <<SubSeq(x, 1, h), SubSeq(x, h + 1, Len(x))>>

\* the random generator: tch::manual_seed and one draw
manual_seed(s) == [seed |-> s, draws |-> 0]
Advance(state) == [state EXCEPT !.draws = @ + 1]
\* the generator state of a process that has not called manual_seed
UnseededRng == [seed |-> -1, draws |-> 0]

\* Tensor::randn(&[bsize, 4, HEIGHT / 8, WIDTH / 8], ..)
randn(shape, state) ==
    [b \in 1..shape[1] |-> Atom([op |-> "randn", shape |-> Tail(shape), rng |-> state, entry |-> b])]

\* Tensor::upsample_nearest2d, per batch entry
upsample_nearest2d(x, size) == <<Atom([op |-> "upsample", input |-> x, size |-> size])>>

\* ------------------------------------------------ the library's networks
\* clip::Tokenizer::encode
Encode(text) == [op |-> "tokens", text |-> text]

\* ClipTextTransformer::forward, per batch entry
ClipForward(model, toks) ==
    [b \in 1..Len(toks) |-> Atom([op |-> "clip", weights |-> model.weights, tokens |-> toks[b]])]

\* AutoEncoderKL::encode: the latent distribution
VaeEncode(model, x) == [op |-> "latent_dist", weights |-> model.weights, input |-> x]

\* DiagonalGaussianDistribution::sample: one draw of the generator
DistSample(dist, state) == <<Atom([op |-> "dist_sample", dist |-> dist, rng |-> state])>>

\* AutoEncoderKL::decode followed by (image / 2 + 0.5).clamp(0., 1.) * 255.
VaeDecode(model, x) ==
    [b \in 1..Len(x) |-> Atom([op |-> "decode", weights |-> model.weights, z |-> x[b]])]

ToUint8(x) == [b \in 1..Len(x) |-> Atom([op |-> "uint8", input |-> x[b]])]

\* UNet2DConditionModel::forward: one prediction per batch entry, from that
\* entry's input, the timestep and that entry's text embedding
UnetForward(model, xs, timestep, context) ==
    [b \in 1..Len(xs) |->
        Atom([op |-> "unet", weights |-> model.weights, sample |-> xs[b],
              timestep |-> timestep, context |-> context[b]])]

\* DDIMScheduler::new: the timestep sequence, evenly spaced, highest first
Timesteps(inference_steps, train_timesteps) ==
    [i \in 1..inference_steps |->
        (inference_steps - i) * (train_timesteps \div inference_steps)]

\* DDIMScheduler::step(model_output, timestep, sample)
SchedulerStep(model_output, timestep, sample) ==
    [b \in 1..Len(sample) |->
        Atom([op |-> "step", model_output |-> model_output[b],
              timestep |-> timestep, sample |-> sample[b]])]

\* ------------------------------------------------------ pieces of run()
\* faulty variant: "all" is not recognised
cpu_or_cuda_no_all(cpu, cuda_device, name) ==
    IF \E k \in 1..Len(cpu) : cpu[k] = name
    THEN "Cpu"
    ELSE cuda_device

\* the closure cpu_or_cuda
cpu_or_cuda(cpu, cuda_device, name) ==
    IF \E k \in 1..Len(cpu) : cpu[k] = "all" \/ cpu[k] = name
    THEN "Cpu"
    ELSE cuda_device

\* Device::cuda_if_available
cuda_if_available(available) == IF available THEN "Cuda" ELSE "Cpu"

\* faulty variant: every sample is seeded with the base seed
SampleSeedNoIdx(seed, i) == seed

\* tch::manual_seed(seed + idx)
SampleSeed(seed, i) == seed + i

\* faulty variant: the loop stops one timestep early
HasNextTimestepShort(i, timesteps) == i + 1 < Len(timesteps)

\* the iterator of `for (timestep_index, &timestep) in scheduler.timesteps()`
HasNextTimestep(i, timesteps) == i < Len(timesteps)

\* faulty variant: the two halves of the prediction take each other's role
GuidanceSwapped(noise_pred_uncond, noise_pred_text) ==
    BAdd(noise_pred_text,
         BScale(BSub(noise_pred_uncond, noise_pred_text), Rat(GUIDANCE_SCALE[1], GUIDANCE_SCALE[2])))

\* noise_pred_uncond + (noise_pred_text - noise_pred_uncond) * GUIDANCE_SCALE
Guidance(noise_pred_uncond, noise_pred_text) ==
    BAdd(noise_pred_uncond,
         BScale(BSub(noise_pred_text, noise_pred_uncond), Rat(GUIDANCE_SCALE[1], GUIDANCE_SCALE[2])))

\* faulty variant: the latents and the prediction are passed in each other's place
StepArgsSwapped(noise_pred, timestep, lat) ==
    [model_output |-> lat, timestep |-> timestep, sample |-> noise_pred]

\* the arguments of scheduler.step(&noise_pred, timestep, &latents)
StepArgs(noise_pred, timestep, lat) ==
    [model_output |-> noise_pred, timestep |-> timestep, sample |-> lat]

\* faulty variant: the error is dropped and run goes on
PropagateNever(ok, next) == next

\* the `?` operator: an error returns from run at once
Propagate(ok, next) == IF ok THEN next ELSE "exit"

\* strings are sequences of characters
Digit(d) == <<"0", "1", "2", "3", "4", "5", "6", "7", "8", "9">>[d + 1]

\* Display of a non-negative integer
RECURSIVE Display(_)
Display(n) == IF n < 10 THEN <<Digit(n)>> ELSE Display(n \div 10) \o <<Digit(n % 10)>>

\* str::rsplit_once('.'): <<>> for None, <<before, after>> for Some
rsplit_once(s) ==
    IF \A k \in 1..Len(s) : s[k] # "."
    THEN <<>>
    ELSE LET p == CHOOSE k \in 1..Len(s) :
                    s[k] = "." /\ \A j \in (k + 1)..Len(s) : s[j] # "."
         IN  <<SubSeq(s, 1, p - 1), SubSeq(s, p + 1, Len(s))>>

\* faulty variant: the index in the name is 0-based
OutputNameZeroBased(final_image, num_samples, i) ==
    IF num_samples > 1
    THEN LET parts == rsplit_once(final_image)
         IN  IF parts = <<>>
             THEN final_image \o <<".">> \o Display(i) \o <<".", "p", "n", "g">>
             ELSE parts[1] \o <<".">> \o Display(i) \o <<".">> \o parts[2]
    ELSE final_image

\* faulty variant: a name without '.' gets the index and no extension
OutputNameNoPng(final_image, num_samples, i) ==
    IF num_samples > 1
    THEN LET parts == rsplit_once(final_image)
         IN  IF parts = <<>>
             THEN final_image \o <<".">> \o Display(i + 1)
             ELSE parts[1] \o <<".">> \o Display(i + 1) \o <<".">> \o parts[2]
    ELSE final_image

\* the name of the file written for sample idx
OutputName(final_image, num_samples, i) ==
    IF num_samples > 1
    THEN LET parts == rsplit_once(final_image)
         IN  IF parts = <<>>
             THEN final_image \o <<".">> \o Display(i + 1) \o <<".", "p", "n", "g">>
             ELSE parts[1] \o <<".">> \o Display(i + 1) \o <<".">> \o parts[2]
    ELSE final_image

\* ------------------------------------------------------------ the state
VARIABLES
    args,                 \* struct Args, as parsed by clap
    cuda_available,       \* whether the machine has an accelerator
    pc,                   \* the position of the process
    autocast,             \* whether run() executes under tch::autocast
    rng,                  \* the process-wide random generator
    mask, masked_image,   \* the locals of run()
    clip_device, vae_device, unet_device,
    scheduler, tokenizer, tokens, uncond_tokens,
    text_model, text_embeddings, vae, unet,
    masked_image_dist, idx, masked_image_latents, latents, timestep_index, image,
    files,                \* the files written, in order
    exit_status,          \* <<>> while running, <<code>> once the process has ended
    attempts,             \* history: the fallible operations attempted, with their outcome
    samples,              \* history: per sample, what was drawn, called and written
    archive               \* history: the samples of an earlier invocation

inputs == <<args, cuda_available>>
prepared == <<mask, masked_image>>
devices == <<clip_device, vae_device, unet_device>>
text == <<tokenizer, tokens, uncond_tokens, text_model, text_embeddings>>
models == <<vae, unet, masked_image_dist>>
loop == <<idx, masked_image_latents, latents, timestep_index, image>>
vars == <<args, cuda_available, pc, autocast, rng, mask, masked_image,
          clip_device, vae_device, unet_device, scheduler, tokenizer, tokens,
          uncond_tokens, text_model, text_embeddings, vae, unet,
          masked_image_dist, idx, masked_image_latents, latents, timestep_index,
          image, files, exit_status, attempts, samples, archive>>

\* ------------------------------------------------------------ the inputs
RECURSIVE Strings(_, _)
Strings(alphabet, n) ==
    IF n = 0 THEN {<<>>}
    ELSE LET shorter == Strings(alphabet, n - 1)
         IN  shorter \cup {s \o <<c>> : s \in {t \in shorter : Len(t) = n - 1}, c \in alphabet}

OutPng == <<"o", "u", "t", ".", "p", "n", "g">>
Out == <<"o", "u", "t">>

Shapes ==
    {s \in (1..MaxChannels) \X (1..MaxHeight) \X (1..MaxWidth) : s[1] * s[2] * s[3] <= MaxElems}

\* a two-pixel image and its mask, for the runs of the whole pipeline
SampleImage == [shape |-> <<1, 1, 2>>, data |-> (<<1, 1, 1>> :> RInt(51)) @@ (<<1, 1, 2>> :> RInt(255))]
SampleMask == [shape |-> <<1, 1, 2>>, data |-> (<<1, 1, 1>> :> RInt(255)) @@ (<<1, 1, 2>> :> RInt(0))]

\* values of the repeatable --cpu flag
CpuLists ==
    {<<>>, <<"all">>, <<"clip">>, <<"vae">>, <<"unet">>, <<"other">>,
     <<"clip", "vae">>, <<"unet", "all">>}

ArgsOf(image_files, mask_files, names, cpu_lists) ==
    [input_image : image_files,
     mask_image : mask_files,
     prompt : {<<"">>, <<"A fantasy landscape, trending on artstation.">>},
     cpu : cpu_lists,
     unet_weights : {"data/unet.ot"},
     clip_weights : {"data/pytorch_model.ot"},
     vae_weights : {"data/vae.ot"},
     n_steps : 0..MaxSteps,
     seed : {32},
     num_samples : 0..MaxSamples,
     final_image : names,
     no_autocast : BOOLEAN]

NoTensor == <<>>

\* the state of a process that has parsed its arguments
Start(a) ==
    /\ args = a
    /\ pc = "main"
    /\ autocast = FALSE
    /\ rng = UnseededRng
    /\ mask = NoTensor /\ masked_image = NoTensor
    /\ clip_device = "unset" /\ vae_device = "unset" /\ unet_device = "unset"
    /\ scheduler = <<>> /\ tokenizer = <<>> /\ tokens = <<>> /\ uncond_tokens = <<>>
    /\ text_model = <<>> /\ text_embeddings = <<>> /\ vae = <<>> /\ unet = <<>>
    /\ masked_image_dist = <<>>
    /\ idx = 0 /\ masked_image_latents = <<>> /\ latents = <<>>
    /\ timestep_index = 0 /\ image = <<>>
    /\ files = <<>>
    /\ exit_status = <<>>
    /\ attempts = <<>>
    /\ samples = <<>>

Init ==
    /\ cuda_available \in BOOLEAN
    /\ archive = <<>>
    /\ \E a \in ArgsOf({SampleImage}, {SampleMask}, {OutPng, Out}, CpuLists) : Start(a)

\* ------------------------------------------------------------ the actions
Attempt(name, ok) == [op |-> name, idx |-> idx, ok |-> ok]

\* the process ends with status 1 when run() returned an error
Exit(next) == IF next = "exit" THEN <<1>> ELSE <<>>

\* main: run(args), under autocast unless --no-autocast
Main ==
    /\ pc = "main"
    /\ autocast' = ~args.no_autocast
    /\ pc' = "prepare"
    /\ UNCHANGED <<inputs, rng, prepared, devices, scheduler, text, models, loop,
                   files, exit_status, attempts, samples, archive>>

\* run, line 119: prepare_mask_and_masked_image(input_image, mask_image)?
PrepareImages ==
    /\ pc = "prepare"
    /\ \E ok_input \in BOOLEAN, ok_mask \in BOOLEAN :
        LET ok == ok_input /\ ok_mask
            r == prepare_mask_and_masked_image(args.input_image, args.mask_image)
        IN  /\ attempts' = attempts \o <<Attempt("load_input", ok_input)>>
                             \o (IF ok_input THEN <<Attempt("load_mask", ok_mask)>> ELSE <<>>)
            /\ mask' = IF ok THEN r[1] ELSE mask
            /\ masked_image' = IF ok THEN r[2] ELSE masked_image
            /\ pc' = Propagate(ok, "devices")
            /\ exit_status' = Exit(pc')
    /\ UNCHANGED <<inputs, autocast, rng, devices, scheduler, text, models, loop,
                   files, samples, archive>>

\* run, lines 111-123: the three devices and the scheduler
ResolveDevices ==
    /\ pc = "devices"
    /\ LET cuda_device == cuda_if_available(cuda_available)
       IN  /\ clip_device' = cpu_or_cuda(args.cpu, cuda_device, "clip")
           /\ vae_device' = cpu_or_cuda(args.cpu, cuda_device, "vae")
           /\ unet_device' = cpu_or_cuda(args.cpu, cuda_device, "unet")
    /\ scheduler' = [timesteps |-> Timesteps(args.n_steps, TRAIN_TIMESTEPS)]
    /\ pc' = "tokenizer"
    /\ UNCHANGED <<inputs, autocast, rng, prepared, text, models, loop,
                   files, exit_status, attempts, samples, archive>>

\* run, line 125: clip::Tokenizer::create(..)?
CreateTokenizer ==
    /\ pc = "tokenizer"
    /\ \E ok \in BOOLEAN :
        /\ attempts' = Append(attempts, Attempt("tokenizer", ok))
        /\ tokenizer' = IF ok THEN [vocab |-> "data/bpe_simple_vocab_16e6.txt"] ELSE tokenizer
        /\ pc' = Propagate(ok, "encode")
        /\ exit_status' = Exit(pc')
    /\ UNCHANGED <<inputs, autocast, rng, prepared, devices, scheduler, tokens,
                   uncond_tokens, text_model, text_embeddings, models, loop,
                   files, samples, archive>>

\* run, lines 126-135: tokenizer.encode(&prompt)? and tokenizer.encode("")?
EncodePrompts ==
    /\ pc = "encode"
    /\ \E ok_prompt \in BOOLEAN, ok_uncond \in BOOLEAN :
        LET ok == ok_prompt /\ ok_uncond
            prompt == IF args.prompt = <<>>
                      THEN "A very realistic photo of a rusty robot walking on a sandy beach"
                      ELSE args.prompt[1]
        IN  /\ attempts' = attempts \o <<Attempt("encode_prompt", ok_prompt)>>
                             \o (IF ok_prompt THEN <<Attempt("encode_uncond", ok_uncond)>> ELSE <<>>)
            /\ tokens' = IF ok_prompt THEN <<Encode(prompt)>> ELSE tokens
            /\ uncond_tokens' = IF ok THEN <<Encode("")>> ELSE uncond_tokens
            /\ pc' = Propagate(ok, "clip")
            /\ exit_status' = Exit(pc')
    /\ UNCHANGED <<inputs, autocast, rng, prepared, devices, scheduler, tokenizer,
                   text_model, text_embeddings, models, loop, files, samples, archive>>

\* run, lines 140-143: build_clip_transformer(..)? and the text embeddings
BuildClip ==
    /\ pc = "clip"
    /\ \E ok \in BOOLEAN :
        LET model == [weights |-> args.clip_weights, device |-> clip_device]
            text_emb == ClipForward(model, tokens)
            uncond_emb == ClipForward(model, uncond_tokens)
        IN  /\ attempts' = Append(attempts, Attempt("build_clip", ok))
            /\ text_model' = IF ok THEN model ELSE text_model
            /\ text_embeddings' = IF ok THEN cat0(<<uncond_emb, text_emb>>) ELSE text_embeddings
            /\ pc' = Propagate(ok, "vae")
            /\ exit_status' = Exit(pc')
    /\ UNCHANGED <<inputs, autocast, rng, prepared, devices, scheduler, tokenizer,
                   tokens, uncond_tokens, models, loop, files, samples, archive>>

\* run, line 146: build_vae(..)?
BuildVae ==
    /\ pc = "vae"
    /\ \E ok \in BOOLEAN :
        /\ attempts' = Append(attempts, Attempt("build_vae", ok))
        /\ vae' = IF ok THEN [weights |-> args.vae_weights, device |-> vae_device] ELSE vae
        /\ pc' = Propagate(ok, "unet")
        /\ exit_status' = Exit(pc')
    /\ UNCHANGED <<inputs, autocast, rng, prepared, devices, scheduler, text, unet,
                   masked_image_dist, loop, files, samples, archive>>

\* run, lines 148-153: build_unet(..)?, the resized mask, the encoded masked image
BuildUnet ==
    /\ pc = "unet"
    /\ \E ok \in BOOLEAN :
        LET resized == upsample_nearest2d(mask, <<HEIGHT \div 8, WIDTH \div 8>>)
        IN  /\ attempts' = Append(attempts, Attempt("build_unet", ok))
            /\ unet' = IF ok THEN [weights |-> args.unet_weights, device |-> unet_device] ELSE unet
            /\ mask' = IF ok THEN cat0(<<resized, resized>>) ELSE mask
            /\ masked_image_dist' = IF ok THEN VaeEncode(vae, masked_image) ELSE masked_image_dist
            /\ pc' = Propagate(ok, "sample")
            /\ exit_status' = Exit(pc')
    /\ UNCHANGED <<inputs, autocast, rng, masked_image, devices, scheduler, text, vae,
                   loop, files, samples, archive>>

\* run, lines 156-161: the start of sample idx
SampleBegin ==
    /\ pc = "sample"
    /\ idx < args.num_samples
    /\ LET seeded == manual_seed(SampleSeed(args.seed, idx))
           drawn == BScale(DistSample(masked_image_dist, seeded), Rat(VAE_SCALE[1], VAE_SCALE[2]))
           bsize == 1
           first == randn(<<bsize, 4, HEIGHT \div 8, WIDTH \div 8>>, Advance(seeded))
       IN  /\ rng' = Advance(Advance(seeded))
           /\ masked_image_latents' = cat0(<<drawn, drawn>>)
           /\ latents' = first
           /\ samples' = Append(samples,
                 [idx |-> idx, masked_image_latents |-> cat0(<<drawn, drawn>>),
                  init_latents |-> first, unet_calls |-> <<>>, step_calls |-> <<>>,
                  decoded |-> <<>>, saved |-> <<>>])
    /\ timestep_index' = 0
    /\ pc' = "denoise"
    /\ UNCHANGED <<inputs, autocast, prepared, devices, scheduler, text, models,
                   idx, image, files, exit_status, attempts, archive>>

\* run, lines 163-174: one iteration of the denoising loop
DenoiseStep ==
    /\ pc = "denoise"
    /\ HasNextTimestep(timestep_index, scheduler.timesteps)
    /\ LET timestep == scheduler.timesteps[timestep_index + 1]
           latent_model_input == cat1(<<cat0(<<latents, latents>>), mask, masked_image_latents>>)
           predicted == UnetForward(unet, latent_model_input, timestep, text_embeddings)
           noise_pred == chunk2(predicted)
           guided == Guidance(noise_pred[1], noise_pred[2])
           call == StepArgs(guided, timestep, latents)
           result == SchedulerStep(call.model_output, call.timestep, call.sample)
           n == Len(samples)
       IN  /\ latents' = result
           /\ samples' = [samples EXCEPT
                 ![n].unet_calls = Append(@, [input |-> latent_model_input, timestep |-> timestep,
                                              context |-> text_embeddings, output |-> predicted,
                                              guided |-> guided, latents |-> latents]),
                 ![n].step_calls = Append(@, [model_output |-> call.model_output,
                                              timestep |-> call.timestep,
                                              sample |-> call.sample, result |-> result])]
    /\ timestep_index' = timestep_index + 1
    /\ UNCHANGED <<inputs, pc, autocast, rng, prepared, devices, scheduler, text, models,
                   idx, masked_image_latents, image, files, exit_status, attempts, archive>>

\* run, lines 176-180: the loop is over; decode the latents
Decode ==
    /\ pc = "denoise"
    /\ ~HasNextTimestep(timestep_index, scheduler.timesteps)
    /\ LET z == BScale(latents, RDiv(RInt(1), Rat(VAE_SCALE[1], VAE_SCALE[2])))
           n == Len(samples)
       IN  /\ image' = ToUint8(VaeDecode(vae, z))
           /\ samples' = [samples EXCEPT ![n].decoded = <<[latents |-> latents, z |-> z,
                                                           image |-> image']>>]
    /\ pc' = "save"
    /\ UNCHANGED <<inputs, autocast, rng, prepared, devices, scheduler, text, models,
                   idx, masked_image_latents, latents, timestep_index, files,
                   exit_status, attempts, archive>>

\* run, lines 181-192: the file name, tch::vision::image::save(..)?, the next sample
Save ==
    /\ pc = "save"
    /\ \E ok \in BOOLEAN :
        LET name == OutputName(args.final_image, args.num_samples, idx)
            n == Len(samples)
        IN  /\ attempts' = Append(attempts, Attempt("save", ok))
            /\ files' = IF ok THEN Append(files, [name |-> name, image |-> image]) ELSE files
            /\ samples' = [samples EXCEPT ![n].saved = <<[name |-> name, ok |-> ok]>>]
            /\ pc' = Propagate(ok, "sample")
            /\ idx' = IF pc' = "sample" THEN idx + 1 ELSE idx
            /\ exit_status' = Exit(pc')
    /\ UNCHANGED <<inputs, autocast, rng, prepared, devices, scheduler, text, models,
                   masked_image_latents, latents, timestep_index, image, archive>>

\* run, lines 194-195, and main: Ok(()) ends the process with status 0
Finish ==
    /\ pc = "sample"
    /\ ~(idx < args.num_samples)
    /\ pc' = "exit"
    /\ exit_status' = <<0>>
    /\ UNCHANGED <<inputs, autocast, rng, prepared, devices, scheduler, text, models,
                   loop, files, attempts, samples, archive>>

Next ==
    \/ Main
    \/ PrepareImages
    \/ ResolveDevices
    \/ CreateTokenizer
    \/ EncodePrompts
    \/ BuildClip
    \/ BuildVae
    \/ BuildUnet
    \/ SampleBegin
    \/ DenoiseStep
    \/ Decode
    \/ Save
    \/ Finish

Spec == Init /\ [][Next]_vars

\* ----------------------------------------------- a second invocation
\* The program is invoked again, as a new process, for one sample, with
\* the seed  seed + i  and the other arguments unchanged; sample i of the
\* first invocation is kept for comparison.
Reinvoke ==
    /\ pc = "exit"
    /\ archive = <<>>
    /\ \E k \in 1..Len(samples) :
        /\ archive' = <<samples[k]>>
        /\ args' = [args EXCEPT !.seed = args.seed + samples[k].idx, !.num_samples = 1]
    /\ pc' = "main"
    /\ autocast' = FALSE
    /\ rng' = UnseededRng
    /\ mask' = NoTensor /\ masked_image' = NoTensor
    /\ clip_device' = "unset" /\ vae_device' = "unset" /\ unet_device' = "unset"
    /\ scheduler' = <<>> /\ tokenizer' = <<>> /\ tokens' = <<>> /\ uncond_tokens' = <<>>
    /\ text_model' = <<>> /\ text_embeddings' = <<>> /\ vae' = <<>> /\ unet' = <<>>
    /\ masked_image_dist' = <<>>
    /\ idx' = 0 /\ masked_image_latents' = <<>> /\ latents' = <<>>
    /\ timestep_index' = 0 /\ image' = <<>>
    /\ files' = <<>>
    /\ exit_status' = <<>>
    /\ attempts' = <<>>
    /\ samples' = <<>>
    /\ UNCHANGED cuda_available

InitRerun ==
    /\ cuda_available \in BOOLEAN
    /\ archive = <<>>
    /\ \E a \in ArgsOf({SampleImage}, {SampleMask}, {OutPng}, {<<>>, <<"all">>}) :
          a.no_autocast /\ Start(a)

NextRerun == Next \/ Reinvoke

SpecRerun == InitRerun /\ [][NextRerun]_vars

\* ------------------------------- prepare_mask_and_masked_image on its own
DefaultArgs ==
    [input_image |-> SampleImage, mask_image |-> SampleMask,
     prompt |-> <<"A fantasy landscape, trending on artstation.">>,
     cpu |-> <<>>, unet_weights |-> "data/unet.ot",
     clip_weights |-> "data/pytorch_model.ot", vae_weights |-> "data/vae.ot",
     n_steps |-> 30, seed |-> 32, num_samples |-> 1, final_image |-> OutPng,
     no_autocast |-> FALSE]

InitMask ==
    /\ cuda_available = FALSE
    /\ archive = <<>>
    /\ \E s \in Shapes :
        \E f \in [shape : {s}, data : [Indices(s) -> {RInt(0), RInt(255)}]],
           m \in [shape : {s}, data : [Indices(s) -> {RInt(0), RInt(122), RInt(123), RInt(255)}]] :
            Start([DefaultArgs EXCEPT !.input_image = f, !.mask_image = m])

PrepareOnly ==
    /\ pc = "main"
    /\ LET r == prepare_mask_and_masked_image(args.input_image, args.mask_image)
       IN  /\ mask' = r[1]
           /\ masked_image' = r[2]
    /\ pc' = "prepared"
    /\ UNCHANGED <<inputs, autocast, rng, devices, scheduler, text, models, loop,
                   files, exit_status, attempts, samples, archive>>

SpecMask == InitMask /\ [][PrepareOnly]_vars

\* ------------------------------------------- the output names on their own
InitName ==
    /\ cuda_available = FALSE
    /\ archive = <<>>
    /\ \E name \in Strings({"o", ".", "/"}, MaxLen) \cup {OutPng, Out},
          n \in 0..(MaxSamples + 1) :
            Start([DefaultArgs EXCEPT !.final_image = name, !.num_samples = n])

NameOnly ==
    /\ pc = "main"
    /\ idx < args.num_samples
    /\ files' = Append(files, [name |-> OutputName(args.final_image, args.num_samples, idx),
                               image |-> <<>>])
    /\ idx' = idx + 1
    /\ UNCHANGED <<inputs, pc, autocast, rng, prepared, devices, scheduler, text, models,
                   masked_image_latents, latents, timestep_index, image,
                   exit_status, attempts, samples, archive>>

SpecName == InitName /\ [][NameOnly]_vars

\* ================================================================ claims
TheAtom(x) == CHOOSE a \in DOMAIN x : TRUE

LoopOver(s) == s.decoded # <<>>

\* C1: for every sample the denoising loop performs exactly n_steps
\* iterations, each with one denoiser call and one scheduler.step call: a
\* sample never leaves the loop before, a sample whose loop is over has
\* made n_steps calls of each, and a later sample starts only after that.
C1_ExactlyNSteps ==
    \A k \in 1..Len(samples) :
        LET s == samples[k]
        IN  /\ Len(s.unet_calls) = Len(s.step_calls)
            /\ Len(s.step_calls) <= args.n_steps
            /\ LoopOver(s) => Len(s.step_calls) = args.n_steps
            /\ k < Len(samples) => LoopOver(s)
            /\ (pc = "exit" /\ exit_status = <<0>>) => LoopOver(s)

C1_Witness ==
    /\ args.n_steps = MaxSteps
    /\ Len(samples) = 2
    /\ LoopOver(samples[2])
    /\ Len(samples[2].step_calls) = MaxSteps
    /\ Len(samples[1].unet_calls) = MaxSteps

\* C2: within a sample, scheduler.step receives the guided prediction of
\* this iteration as model output, the current timestep and the current
\* latents; the timesteps of successive calls decrease strictly; the
\* latents of a call are the result of the call before (the draw seeded
\* with seed + idx for the first); what is decoded is the last result.
C2_StepChain ==
    \A k \in 1..Len(samples) :
        LET s == samples[k]
            n == Len(s.step_calls)
            last == IF n = 0 THEN s.init_latents ELSE s.step_calls[n].result
        IN  /\ \A b \in 1..Len(s.init_latents) :
                    /\ TheAtom(s.init_latents[b]).op = "randn"
                    /\ TheAtom(s.init_latents[b]).rng.seed = args.seed + s.idx
            /\ \A j \in 1..n :
                LET c == s.step_calls[j]
                IN  /\ c.timestep = scheduler.timesteps[j]
                    /\ c.model_output = s.unet_calls[j].guided
                    /\ s.unet_calls[j].timestep = c.timestep
                    /\ s.unet_calls[j].latents = c.sample
                    /\ c.sample = IF j = 1 THEN s.init_latents ELSE s.step_calls[j - 1].result
                    /\ j > 1 => c.timestep < s.step_calls[j - 1].timestep
                    /\ \A b \in 1..Len(c.result) :
                        /\ TheAtom(c.result[b]).model_output = c.model_output[b]
                        /\ TheAtom(c.result[b]).sample = c.sample[b]
                        /\ TheAtom(c.result[b]).timestep = c.timestep
            /\ (k = Len(samples) /\ pc = "denoise") => latents = last
            /\ LoopOver(s) => s.decoded[1].latents = last

C2_Witness ==
    /\ Len(samples) = 2
    /\ LoopOver(samples[2])
    /\ Len(samples[2].step_calls) >= 2
    /\ samples[2].step_calls[2].sample = samples[2].step_calls[1].result

ContainsDot(s) == \E k \in 1..Len(s) : s[k] = "."

\* the last path component of the name contains a '.'
HasExtension(s) ==
    \E k \in 1..Len(s) : s[k] = "." /\ \A j \in (k + 1)..Len(s) : s[j] # "/"

IndexText(k) == <<"1", "2", "3", "4", "5", "6", "7", "8", "9">>[k]

\* C3: with more than one sample and a name that has an extension, the
\* k-th file written (k = idx + 1) is named  stem.k.extension, where
\* final_image = stem.extension and the extension holds no '.'; with one
\* sample the name is final_image itself.
C3_IndexBeforeExtension ==
    \A k \in 1..Len(files) :
        /\ (args.num_samples > 1 /\ HasExtension(args.final_image)) =>
              \E p \in 1..Len(args.final_image) :
                  LET stem == SubSeq(args.final_image, 1, p - 1)
                      ext == SubSeq(args.final_image, p + 1, Len(args.final_image))
                  IN  /\ args.final_image[p] = "."
                      /\ ~ContainsDot(ext)
                      /\ files[k].name = stem \o <<".", IndexText(k), ".">> \o ext
        /\ (args.num_samples > 1 /\ args.final_image = OutPng) =>
              files[k].name = <<"o", "u", "t", ".", IndexText(k), ".", "p", "n", "g">>
        /\ args.num_samples = 1 => files[k].name = args.final_image

C3_Witness ==
    /\ args.final_image = OutPng
    /\ args.num_samples = 3
    /\ Len(files) = 3
    /\ files[1].name = <<"o", "u", "t", ".", "1", ".", "p", "n", "g">>
    /\ files[3].name = <<"o", "u", "t", ".", "3", ".", "p", "n", "g">>

\* C4, as stated: with more than one sample and a name without '.', the
\* k-th file written is named final_image with ".k" appended and nothing else.
C4_Original ==
    \A k \in 1..Len(files) :
        (args.num_samples > 1 /\ ~ContainsDot(args.final_image)) =>
            files[k].name = args.final_image \o <<".", IndexText(k)>>

\* C4, amended: with more than one sample and a name without '.', the k-th
\* file written is named final_image with ".k.png" appended.
C4_AppendsIndexAndPng ==
    \A k \in 1..Len(files) :
        (args.num_samples > 1 /\ ~ContainsDot(args.final_image)) =>
            files[k].name = args.final_image \o <<".", IndexText(k), ".", "p", "n", "g">>

C4_Witness ==
    /\ args.final_image = Out
    /\ args.num_samples = 2
    /\ Len(files) = 2
    /\ files[1].name = <<"o", "u", "t", ".", "1", ".", "p", "n", "g">>
    /\ files[2].name = <<"o", "u", "t", ".", "2", ".", "p", "n", "g">>

RECURSIVE ChannelSum(_, _, _, _)
ChannelSum(t, c, h, w) ==
    IF c = 0 THEN RInt(0) ELSE RAdd(t.data[<<c, h, w>>], ChannelSum(t, c - 1, h, w))

\* C5: the mask of a C x H x W mask image has, before the batch axis is
\* added, shape [1, H, W]; its entry at (h, w) is 1 if the mean over the
\* channels of pixel (h, w) is >= 122.5 and 0 otherwise.
C5_MaskPerPixel ==
    pc = "prepared" =>
        LET file == args.mask_image
            C == file.shape[1]
            H == file.shape[2]
            W == file.shape[3]
        IN  /\ mask.shape = <<1, 1, H, W>>
            /\ \A h \in 1..H, w \in 1..W :
                /\ mask.data[<<1, 1, h, w>>] \in {RInt(0), RInt(1)}
                /\ mask.data[<<1, 1, h, w>>] = RInt(1)
                     <=> RGe(RDiv(ChannelSum(file, C, h, w), RInt(C)), <<245, 2>>)

\* C6: for every channel c and pixel (h, w): where the mask is 1 at (h, w)
\* the masked image is 0, and where the mask is 0 at (h, w) the masked
\* image is the normalized input value x / 255 * 2 - 1 of (c, h, w).
C6_MaskedImagePerPixel ==
    pc = "prepared" =>
        LET file == args.input_image
        IN  \A c \in 1..file.shape[1], h \in 1..file.shape[2], w \in 1..file.shape[3] :
                /\ <<1, 1, h, w>> \in DOMAIN mask.data
                /\ mask.data[<<1, 1, h, w>>] = RInt(1) =>
                       masked_image.data[<<1, c, h, w>>] = RInt(0)
                /\ mask.data[<<1, 1, h, w>>] = RInt(0) =>
                       masked_image.data[<<1, c, h, w>>] =
                           Rat(2 * file.data[<<c, h, w>>][1] - 255, 255)

CpuList == {args.cpu[k] : k \in 1..Len(args.cpu)}

ExpectedDevice(name) ==
    IF "all" \in CpuList \/ name \in CpuList THEN "Cpu"
    ELSE IF cuda_available THEN "Cuda" ELSE "Cpu"

\* C7: each of clip, vae, unet is assigned CPU if --cpu lists "all" or its
\* name, and otherwise the accelerator when there is one and CPU when there
\* is none; the three are assigned before any model is built, every model
\* is built on its assigned device, and the assignment never changes.
C7_DeviceResolution ==
    LET resolved == clip_device # "unset"
    IN  /\ resolved =>
              /\ clip_device = ExpectedDevice("clip")
              /\ vae_device = ExpectedDevice("vae")
              /\ unet_device = ExpectedDevice("unet")
        /\ ~resolved =>
              /\ vae_device = "unset" /\ unet_device = "unset"
              /\ text_model = <<>> /\ vae = <<>> /\ unet = <<>>
              /\ pc \in {"main", "prepare", "devices", "exit"}
        /\ text_model # <<>> => text_model.device = ExpectedDevice("clip")
        /\ vae # <<>> => vae.device = ExpectedDevice("vae")
        /\ unet # <<>> => unet.device = ExpectedDevice("unet")

C7_Witness ==
    /\ args.cpu = <<"unet">>
    /\ cuda_available
    /\ unet # <<>>
    /\ unet.device = "Cpu"
    /\ text_model.device = "Cuda"
    /\ vae.device = "Cuda"

IsPrefix(a, b) == Len(a) <= Len(b) /\ SubSeq(b, 1, Len(a)) = a

Agree(a, b) == IsPrefix(a, b) \/ IsPrefix(b, a)

\* C8: sample i of a run with seed base_seed is, value for value, sample 0
\* of a separate one-sample run with seed base_seed + i and otherwise the
\* same arguments: the same masked-image latents, the same initial latents,
\* the same denoiser and scheduler calls, the same decoded image.
C8_SameAsSeparateRun ==
    (archive # <<>> /\ samples # <<>>) =>
        LET a == archive[1]
            s == samples[1]
        IN  /\ s.masked_image_latents = a.masked_image_latents
            /\ s.init_latents = a.init_latents
            /\ Agree(s.unet_calls, a.unet_calls)
            /\ Agree(s.step_calls, a.step_calls)
            /\ Agree(s.decoded, a.decoded)

C8_Witness ==
    /\ archive # <<>>
    /\ samples # <<>>
    /\ archive[1].idx = 1
    /\ Len(archive[1].step_calls) >= 2
    /\ LoopOver(archive[1])
    /\ LoopOver(samples[1])
    /\ samples[1].step_calls = archive[1].step_calls

Stages ==
    <<"load_input", "load_mask", "tokenizer", "encode_prompt", "encode_uncond",
      "build_clip", "build_vae", "build_unet">>

\* C9: the fallible operations are attempted in pipeline order, each at
\* most once; a failure is the last thing attempted, ends the process at
\* once with a nonzero status and starts no later stage or sample; a
\* process that ends with status zero has attempted every stage with
\* success and written one file per requested sample.
C9_ErrorsAreFatal ==
    /\ \A k \in 1..Len(attempts) :
        /\ IF k <= Len(Stages)
           THEN attempts[k].op = Stages[k]
           ELSE attempts[k].op = "save" /\ attempts[k].idx = k - Len(Stages) - 1
        /\ ~attempts[k].ok =>
              /\ k = Len(attempts)
              /\ pc = "exit"
              /\ exit_status # <<>> /\ exit_status[1] # 0
              /\ Len(samples) = (IF attempts[k].op = "save" THEN attempts[k].idx + 1 ELSE 0)
              /\ Len(files) = Len(samples) - (IF attempts[k].op = "save" THEN 1 ELSE 0)
    /\ pc = "exit" <=> exit_status # <<>>
    /\ (pc = "exit" /\ exit_status = <<0>>) =>
          /\ \A k \in 1..Len(attempts) : attempts[k].ok
          /\ Len(attempts) = Len(Stages) + args.num_samples
          /\ Len(files) = args.num_samples
          /\ \A k \in 1..Len(files) :
                /\ files[k].name = OutputName(args.final_image, args.num_samples, k - 1)
                /\ files[k].image = samples[k].decoded[1].image

C9_Witness ==
    /\ pc = "exit"
    /\ exit_status = <<1>>
    /\ Len(attempts) = Len(Stages) + 2
    /\ attempts[Len(attempts)] = [op |-> "save", idx |-> 1, ok |-> FALSE]
    /\ Len(files) = 1
    /\ args.num_samples = 2

\* C10: the text embeddings are the unconditional one first and the
\* conditional one second; the first half of the prediction is the one for
\* the unconditional embedding and is used as uncond, the second half as
\* cond; guided = uncond + 7.5 * (cond - uncond), that is 7.5 cond - 6.5
\* uncond, which is uncond when cond = uncond.
C10_Guidance ==
    /\ text_embeddings # <<>> =>
          /\ Len(text_embeddings) = 2
          /\ TheAtom(text_embeddings[1]).tokens = Encode("")
          /\ TheAtom(text_embeddings[2]).tokens = Encode(args.prompt[1])
    /\ \A k \in 1..Len(samples) : \A j \in 1..Len(samples[k].unet_calls) :
          LET call == samples[k].unet_calls[j]
              uncond == call.output[1]
              cond == call.output[2]
              guided == samples[k].step_calls[j].model_output
          IN  /\ Len(call.output) = 2
              /\ Len(guided) = 1
              /\ TheAtom(uncond).context = text_embeddings[1]
              /\ TheAtom(cond).context = text_embeddings[2]
              /\ IF cond = uncond
                 THEN guided[1] = uncond
                 ELSE /\ DOMAIN guided[1] = {TheAtom(uncond), TheAtom(cond)}
                      /\ guided[1][TheAtom(cond)] = <<15, 2>>
                      /\ guided[1][TheAtom(uncond)] = <<-13, 2>>

C10_Witness ==
    /\ samples # <<>>
    /\ Len(samples[1].unet_calls) >= 2
    /\ samples[1].unet_calls[2].output[1] # samples[1].unet_calls[2].output[2]
    /\ samples[1].step_calls[2].model_output[1][TheAtom(samples[1].unet_calls[2].output[2])] = <<15, 2>>

====
